---- MODULE Spec2Model ----
(***************************************************************************)
(* Secure-Vault: deduplicating, reference-counted blob store.              *)
(*                                                                         *)
(* The model follows backend/files/views.py statement by statement.  Each  *)
(* ORM statement issued in autocommit mode is one atomic step; a           *)
(* transaction.atomic() block that works on a single FileBlob row is one   *)
(* atomic step as well (the row lock taken by its first UPDATE is held to  *)
(* the commit, and a row created inside it is invisible to the other       *)
(* requests until the commit).  The one exception is the "found" branch of *)
(* get_or_create: the SELECT takes no lock, so the read of the row and the *)
(* later UPDATE of ref_count are two steps.  The record update the         *)
(* ModelViewSet provides (PUT/PATCH through FileSerializer and File.save)  *)
(* is a read of the row followed by the save.                              *)
(*                                                                         *)
(* Requests are served by the workers in Procs; a worker that has answered *)
(* a request returns to "idle", its locals are dropped and resp keeps the  *)
(* response.                                                               *)
(***************************************************************************)
EXTENDS Integers, Sequences, FiniteSets, TLC

\* ------------------------------------------------------------------ bounds
\* Total number of HTTP requests accepted in one run.
MaxOps == 4

\* settings.TOTAL_STORAGE_LIMIT and settings.MAX_UPLOAD_SIZE, scaled down to
\* the sizes of the contents below: content 3 is larger than one upload may
\* be and still fits the store, contents 1 and 2 fit it one at a time.
TOTAL_STORAGE_LIMIT == 4
MAX_UPLOAD_SIZE == 3

\* settings.SENSITIVE_SCAN_MAX_BYTES and settings.SENSITIVE_SCAN_MAX_TEXT_CHARS,
\* scaled down: no content is larger than the first, no text of an upload is
\* longer than the second.
SENSITIVE_SCAN_MAX_BYTES == 4
SENSITIVE_SCAN_MAX_TEXT_CHARS == 5

\* Number of scans of one file by the scanner run on its own.
MaxScans == 2

\* ------------------------------------------------------------ configuration
Procs == {1, 2}

\* Uploaded byte strings.  Content c is Size[c] bytes long.
Contents == {1, 2, 3}
Size == [c \in Contents |-> c + 1]

\* hashlib.sha256(...).hexdigest(): distinct contents have distinct digests.
Digests == {"h1", "h2", "h3"}
Sha256(c) == <<"h1", "h2", "h3">>[c]

\* file_hash[:2]
HashPrefix(h) == CASE h = "h1" -> "p1" [] h = "h2" -> "p2" [] OTHER -> "p3"

\* settings.BLOCKED_FILE_EXTENSIONS, ALLOWED_FILE_EXTENSIONS, ALLOWED_MIME_TYPES
BLOCKED_FILE_EXTENSIONS == {"exe"}
ALLOWED_FILE_EXTENSIONS == {"txt", "pdf"}
ALLOWED_MIME_TYPES == {"text/plain", "application/pdf"}

\* What the scanner meets while it reads the temp file:
\*   "clean"       text without markers
\*   "email"       text containing an e-mail address
\*   "extractFail" the format-specific extractor raises
\*   "configFail"  a settings lookup of the scanner raises
\*   "nerFail"     the spaCy pipeline raises inside _detect_markers
ScanCases == {"clean", "email", "extractFail", "configFail", "nerFail"}

\* The uploads tried: an acceptable file under every scan case and a second
\* acceptable content, one file per validation rule that breaks that rule
\* alone, and one file whose chunks() yield more bytes than the file_obj.size
\* it declares.  `declared` is file_obj.size.
UploadRequests ==
    {[content |-> 1, declared |-> Size[1], ext |-> "txt", mime |-> "text/plain",
      scan |-> s] : s \in ScanCases}
    \cup {[content |-> 2, declared |-> Size[2], ext |-> "txt",
           mime |-> "text/plain", scan |-> "clean"],
          [content |-> 3, declared |-> Size[3], ext |-> "txt",
           mime |-> "text/plain", scan |-> "clean"],
          [content |-> 1, declared |-> Size[1], ext |-> "exe",
           mime |-> "text/plain", scan |-> "clean"],
          [content |-> 1, declared |-> Size[1], ext |-> "txt",
           mime |-> "application/x-dosexec", scan |-> "clean"],
          [content |-> 3, declared |-> MAX_UPLOAD_SIZE, ext |-> "txt",
           mime |-> "text/plain", scan |-> "clean"]}

\* ---------------------------------------------------------------- variables
VARIABLES
    cloudinary,   \* TRUE: Cloudinary backend, FALSE: local MEDIA_ROOT
    blobs,        \* FileBlob table: set of rows
    files,        \* File table: set of rows
    storage,      \* backend objects: set of [loc, data]
    temps,        \* temp upload files: set of request numbers owning one
    pc,           \* position of each worker in its handler
    req,          \* the request a worker is serving / served last
    reg,          \* the handler's local variables
    resp,         \* last response of each worker: "none" while it works, else
                  \* the status ("400 invalid": the 400 of a
                  \* FileValidationError, "400 limit": the 400 of a capacity check)
    nOps,         \* requests accepted so far
    nextBlob,     \* next FileBlob primary key
    nextFile,     \* next File primary key and uploaded_at (one sequence orders both)
    okUploads,    \* per digest: the uploads answered 201, or -1 once a failed
                  \* upload, a delete, an update or remove_duplicates worked on
                  \* the digest
    relFiles,     \* the File ids for which a delete request applied a release
    _NLP,         \* sensitive_scan._NLP: TRUE when the spaCy pipeline is loaded
    _SPACY_INIT_ATTEMPTED,  \* sensitive_scan._SPACY_INIT_ATTEMPTED
    scanArgs,     \* the file and settings given to the scanner run on its own
    scanOut,      \* the outcomes of the scans of scanArgs so far
    rowLock,      \* per digest: the worker whose open transaction has written
                  \* the FileBlob row of the digest, 0 when there is none
    txn           \* per worker: the open transaction.atomic() block and the
                  \* digests of the FileBlob rows it has yet to write

vars == <<cloudinary, blobs, files, storage, temps, pc, req, reg, resp,
          nOps, nextBlob, nextFile, okUploads, relFiles,
          _NLP, _SPACY_INIT_ATTEMPTED, scanArgs, scanOut, rowLock, txn>>

\* the row locks of the database
lockVars == <<rowLock, txn>>

\* the state of the scanner
scannerVars == <<_NLP, _SPACY_INIT_ATTEMPTED, scanArgs, scanOut>>

\* ------------------------------------------------------------------- paths
\* A path is a sequence of "/"-separated segments; a segment is a sequence
\* of "_"-joined atoms.  "blobs/p1/h1" is <<<<"blobs">>, <<"p1">>, <<"h1">>>>
\* and "secure-vault/blobs/p1_h1" is
\* <<<<"secure-vault">>, <<"blobs">>, <<"p1", "h1">>>>.

RECURSIVE Flatten(_)
Flatten(path) ==
    IF path = <<>> THEN <<>> ELSE Head(path) \o Flatten(Tail(path))

\* str.replace('blobs/', ''): every segment "blobs" that is followed by a "/"
RECURSIVE StripBlobsDir(_)
StripBlobsDir(path) ==
    IF Len(path) <= 1 THEN path
    ELSE IF Head(path) = <<"blobs">> THEN StripBlobsDir(Tail(path))
         ELSE <<Head(path)>> \o StripBlobsDir(Tail(path))

\* str.replace('/', '_'): one segment
SlashToUnderscore(path) == <<Flatten(path)>>

\* blob_relative_path.replace('blobs/', '').replace('/', '_')
PublicIdPart(path) == SlashToUnderscore(StripBlobsDir(path))

\* f'secure-vault/blobs/{part}'
InCloudFolder(part) == <<<<"secure-vault">>, <<"blobs">>>> \o part

StartsWithSecureVault(path) == Len(path) > 1 /\ Head(path) = <<"secure-vault">>
StartsWithBlobs(path) == Len(path) > 1 /\ Head(path) = <<"blobs">>

\* os.path.join('blobs', hash_prefix, file_hash)
get_blob_path(h) == <<<<"blobs">>, <<HashPrefix(h)>>, <<h>>>>

\* os.path.join(settings.MEDIA_ROOT, blob.path)
MediaPath(path) == <<<<"media">>>> \o path

\* ----------------------------------------------------------------- storage
StorageHas(loc) == \E o \in storage : o.loc = loc
StorageRemove(loc) == {o \in storage : o.loc # loc}
\* a write that keeps an object already present at loc (overwrite=False /
\* os.path.exists)
StoragePutNew(loc, c) ==
    IF StorageHas(loc) THEN storage ELSE storage \cup {[loc |-> loc, data |-> c]}

\* a move that writes under MEDIA_ROOT whatever the backend
MoveTargetLocalOnly(path) == MediaPath(path)

\* _move_temp_to_blob_storage: the storage after the move, and the public_id
\* returned (<<>> for the local backend, which returns None)
MoveTarget(path) ==
    IF cloudinary THEN InCloudFolder(PublicIdPart(path)) ELSE MediaPath(path)
MoveReturn(path) ==
    IF cloudinary THEN InCloudFolder(PublicIdPart(path)) ELSE <<>>

\* _delete_blob_file: the object the delete is addressed to
DeleteTarget(path) ==
    IF cloudinary THEN InCloudFolder(PublicIdPart(path)) ELSE MediaPath(path)
_delete_blob_file(path) ==
    IF path = <<>> THEN storage ELSE StorageRemove(DeleteTarget(path))

\* download_file: the object the download reads
DownloadTarget(path) ==
    IF cloudinary
    THEN IF StartsWithSecureVault(path) THEN path
         ELSE IF StartsWithBlobs(path) THEN InCloudFolder(PublicIdPart(path))
         ELSE path
    ELSE MediaPath(path)

\* -------------------------------------------------------------- validators
\* validate_file_size: file_obj.size against settings.MAX_UPLOAD_SIZE
validate_file_size(r) == r.declared <= MAX_UPLOAD_SIZE

\* validate_file_extension: blocked list, then allowed list when configured
validate_file_extension(r) ==
    /\ r.ext \notin BLOCKED_FILE_EXTENSIONS
    /\ (ALLOWED_FILE_EXTENSIONS # {} => r.ext \in ALLOWED_FILE_EXTENSIONS)

\* validate_mime_type: the sniffed type against the allowed list when configured
validate_mime_type(r) ==
    ALLOWED_MIME_TYPES # {} => r.mime \in ALLOWED_MIME_TYPES

\* validate_file_security with the call of validate_file_extension left out
ValidateWithoutExtension(r) == validate_file_size(r) /\ validate_mime_type(r)

\* validate_file_security with the size check alone
ValidateSizeOnly(r) == validate_file_size(r)

\* validate_file_security: TRUE when no FileValidationError is raised
validate_file_security(r) ==
    validate_file_size(r) /\ validate_file_extension(r) /\ validate_mime_type(r)

\* ----------------------------------------------------------------- scanner
DEFAULT_SUPPORTED_EXTENSIONS == {"pdf", "txt", "doc", "docx", "rtf"}

\* SensitiveScanResult(False, [], '')
NotDetected == [detected |-> FALSE, markers |-> <<>>, summary |-> ""]

\* A text is a sequence of tokens; '' is the empty sequence.
\* _extract_text of an upload: every exception of an extractor is caught
\* and gives ''
ExtractedText(r) ==
    IF r.scan = "extractFail" THEN <<>>
    ELSE IF r.scan = "email" THEN <<"hello", "john@example.com">>
    ELSE <<"hello", "world">>

\* the tokens the compiled patterns and the keyword list match
EMAIL_PATTERN == {"john@example.com"}
PHONE_PATTERN == {"+1 555 123 4567"}
USERNAME_PATTERN == {"username", "login id"}
PASSWORD_PATTERN == {"password", "pwd"}
CREDENTIAL_KEYWORDS ==
    {"otp", "one time password", "security answer", "ssn", "pan", "aadhar",
     "secret question"}

\* pattern.search(text)
Search(pattern, text) == \E i \in 1..Len(text) : text[i] \in pattern

\* doc.ents of the spaCy pipeline: the labels of the entities it finds in
\* the text (a person's name is a PERSON entity)
doc_ents(text) == IF Search({"John Smith"}, text) THEN {"PERSON"} ELSE {}

\* _get_nlp returning a pipeline on its first call whether or not spacy.load
\* succeeded
GetNlpForgetsFailure(a) ==
    [nlp |-> _NLP \/ ~_SPACY_INIT_ATTEMPTED,
     _NLP |-> _NLP \/ (~_SPACY_INIT_ATTEMPTED /\ a.spacy),
     _SPACY_INIT_ATTEMPTED |-> TRUE]

\* _get_nlp: the pipeline it returns (FALSE for None) and the two globals
\* after the call.  a.spacy: spaCy is installed and spacy.load succeeds.
_get_nlp(a) ==
    [nlp |-> _NLP \/ (~_SPACY_INIT_ATTEMPTED /\ a.spacy),
     _NLP |-> _NLP \/ (~_SPACY_INIT_ATTEMPTED /\ a.spacy),
     _SPACY_INIT_ATTEMPTED |-> _SPACY_INIT_ATTEMPTED \/ ~_NLP]

\* _detect_markers: the set of marker kinds
_detect_markers(text, labels) ==
    (IF Search(EMAIL_PATTERN, text) THEN {"email"} ELSE {})
    \cup (IF Search(PHONE_PATTERN, text) THEN {"phone"} ELSE {})
    \cup (IF Search(USERNAME_PATTERN, text) THEN {"username"} ELSE {})
    \cup (IF Search(PASSWORD_PATTERN, text) THEN {"password"} ELSE {})
    \cup (IF Search(CREDENTIAL_KEYWORDS, text) THEN {"credential_keyword"} ELSE {})
    \cup (IF "EMAIL" \in labels THEN {"email"} ELSE {})
    \cup (IF "PERSON" \in labels THEN {"credential_keyword"} ELSE {})

\* the order of str: the rank of each marker kind in sorted()
MarkerRank ==
    [credential_keyword |-> 1, email |-> 2, password |-> 3, phone |-> 4,
     username |-> 5]

\* sorted(markers)
RECURSIVE Sorted(_)
Sorted(markers) ==
    IF markers = {} THEN <<>>
    ELSE LET m == CHOOSE x \in markers :
                     \A y \in markers : MarkerRank[x] <= MarkerRank[y]
         IN <<m>> \o Sorted(markers \ {m})

MARKER_LABELS ==
    [email |-> "email address", phone |-> "phone number", username |-> "username",
     password |-> "password", credential_keyword |-> "other sensitive keyword"]

\* ', '.join(labels)
RECURSIVE Join(_)
Join(labels) ==
    IF labels = <<>> THEN ""
    ELSE IF Len(labels) = 1 THEN labels[1]
    ELSE labels[1] \o ", " \o Join(Tail(labels))

\* _format_summary printing the marker kinds instead of their labels
FormatSummaryKinds(markers) ==
    IF markers = {} THEN "" ELSE "Contains " \o Join(Sorted(markers))

\* _format_summary joining every label with ', '
FormatSummaryCommasOnly(markers) ==
    IF markers = {} THEN ""
    ELSE "Contains " \o Join([i \in 1..Cardinality(markers) |->
                                 MARKER_LABELS[Sorted(markers)[i]]])

\* _format_summary
_format_summary(markers) ==
    LET readable == [i \in 1..Cardinality(markers) |->
                        MARKER_LABELS[Sorted(markers)[i]]]
    IN IF readable = <<>> THEN ""
       ELSE IF Len(readable) = 1 THEN "Contains " \o readable[1]
       ELSE "Contains " \o Join(SubSeq(readable, 1, Len(readable) - 1))
            \o " and " \o readable[Len(readable)]

\* text[:max_chars] without the slice
NoTruncation(text, max_chars) == text

\* text[:max_chars]
Truncated(text, max_chars) ==
    SubSeq(text, 1, IF max_chars < Len(text) THEN max_chars ELSE Len(text))

\* the markers _detect_markers finds in the text with the pipeline nlp
MarkersOf(text, nlp) == _detect_markers(text, IF nlp THEN doc_ents(text) ELSE {})

\* analyze_file_for_sensitive_content: [raised, result] for the call `a`:
\*   enabled    settings.SENSITIVE_SCAN_ENABLED
\*   ext        the normalized extension
\*   size       os.path.getsize(file_path)
\*   max_bytes  settings.SENSITIVE_SCAN_MAX_BYTES
\*   text       what _extract_text returns
\*   max_chars  settings.SENSITIVE_SCAN_MAX_TEXT_CHARS
\*   spacy      spaCy is installed and its model loads
\*   fail       "config": the lookup of settings.SENSITIVE_SCAN_EXTENSIONS
\*              raises; "ner": the pipeline raises on the text; "none"
\* Only the extractor runs inside a try/except Exception; the settings
\* lookups and _detect_markers (the spaCy call) do not.
analyze_file_for_sensitive_content(a) ==
    IF ~a.enabled THEN [raised |-> FALSE, result |-> NotDetected]
    ELSE IF a.fail = "config" THEN [raised |-> TRUE, result |-> NotDetected]
    ELSE IF a.ext \notin DEFAULT_SUPPORTED_EXTENSIONS
         THEN [raised |-> FALSE, result |-> NotDetected]
    ELSE IF a.size > a.max_bytes
         THEN [raised |-> FALSE, result |-> NotDetected]
    ELSE IF a.text = <<>>
         THEN [raised |-> FALSE, result |-> NotDetected]
    ELSE IF _get_nlp(a).nlp /\ a.fail = "ner"
         THEN [raised |-> TRUE, result |-> NotDetected]
    ELSE LET markers == MarkersOf(Truncated(a.text, a.max_chars), _get_nlp(a).nlp) IN
         IF markers = {}
         THEN [raised |-> FALSE, result |-> NotDetected]
         ELSE [raised |-> FALSE,
               result |-> [detected |-> TRUE, markers |-> Sorted(markers),
                           summary |-> _format_summary(markers)]]

\* whether the call gets as far as _detect_markers, which calls _get_nlp
ReachesDetection(a) ==
    /\ a.enabled /\ a.fail # "config"
    /\ a.ext \in DEFAULT_SUPPORTED_EXTENSIONS
    /\ a.size <= a.max_bytes
    /\ a.text # <<>>

\* the call _process_upload_with_security makes for the upload r: the temp
\* file holds the uploaded content, the settings are the defaults (scanning
\* enabled, a file and its text below both ceilings)
ScanCall(r) ==
    [enabled |-> TRUE, ext |-> r.ext, size |-> Size[r.content],
     max_bytes |-> SENSITIVE_SCAN_MAX_BYTES, text |-> ExtractedText(r),
     max_chars |-> SENSITIVE_SCAN_MAX_TEXT_CHARS, spacy |-> TRUE,
     fail |-> IF r.scan = "configFail" THEN "config"
              ELSE IF r.scan = "nerFail" THEN "ner" ELSE "none"]

\* ------------------------------------------------------------------- tables
BlobById(id) == {b \in blobs : b.id = id}
FilesOf(id) == {f \in files : f.blob = id}
FileById(id) == {f \in files : f.id = id}

\* a get_or_create whose SELECT never finds a row and whose INSERT meets no
\* unique constraint
ExistingBlobsNoUnique(h) == {}

\* the SELECT of FileBlob.objects.get_or_create(sha256=file_hash, ...)
ExistingBlobs(h) == {b \in blobs : b.sha256 = h}

RECURSIVE SumSize(_)
SumSize(rows) ==
    IF rows = {} THEN 0
    ELSE LET b == CHOOSE x \in rows : TRUE IN b.size + SumSize(rows \ {b})

\* File.objects.select_related('blob').aggregate(total=Sum('blob__size'))
RECURSIVE SumBlobSize(_)
SumBlobSize(rows) ==
    IF rows = {} THEN 0
    ELSE LET f == CHOOSE x \in rows : TRUE
         IN SumSize(BlobById(f.blob)) + SumBlobSize(rows \ {f})

\* a physical total that counts the size of a blob once per File row
PhysicalTotalPerFile == SumBlobSize(files)

\* _get_storage_stats()['physical_total']
physical_total == SumSize(blobs)

\* storage_stats: reported_total, savings
reported_total == SumBlobSize(files)
savings == reported_total - physical_total

\* storage_stats: round(dedup_ratio, 6), in millionths.
\* 1.0 - physical_total / reported_total is savings / reported_total.
dedup_ratio ==
    IF reported_total > 0
    THEN (2 * 1000000 * savings + reported_total) \div (2 * reported_total)
    ELSE 0

NoRequest == [kind |-> "none", content |-> 1, declared |-> 0, ext |-> "txt",
              mime |-> "text/plain", scan |-> "clean", target |-> 0]
NoRegs == [op |-> 0, hash |-> "h1", blob |-> 0, file |-> 0, sens |-> NotDetected,
           snap |-> {}, row |-> {}]

\* no transaction open
NoTxn == [kind |-> "none", todo |-> <<>>]

Init ==
    /\ cloudinary \in BOOLEAN
    /\ blobs = {}
    /\ files = {}
    /\ storage = {}
    /\ temps = {}
    /\ pc = [p \in Procs |-> "idle"]
    /\ req = [p \in Procs |-> NoRequest]
    /\ reg = [p \in Procs |-> NoRegs]
    /\ resp = [p \in Procs |-> "none"]
    /\ nOps = 0
    /\ nextBlob = 1
    /\ nextFile = 1
    /\ okUploads = [h \in Digests |-> 0]
    /\ relFiles = {}
    \* the worker process has loaded the spaCy pipeline in an earlier scan
    /\ _NLP = TRUE
    /\ _SPACY_INIT_ATTEMPTED = TRUE
    /\ scanArgs = ScanCall(NoRequest)
    /\ scanOut = <<>>
    /\ rowLock = [h \in Digests |-> 0]
    /\ txn = [p \in Procs |-> NoTxn]

\* okUploads after something else than a successful upload worked on the
\* digests in hs
Disturb(hs) == okUploads' = [h \in Digests |-> IF h \in hs THEN -1 ELSE okUploads[h]]

\* the handler returns: the worker is idle again, its locals are gone
Answer(p, status) ==
    /\ pc' = [pc EXCEPT ![p] = "idle"]
    /\ resp' = [resp EXCEPT ![p] = status]
    /\ req' = [req EXCEPT ![p] = NoRequest]
    /\ reg' = [reg EXCEPT ![p] = NoRegs]

\* the handler goes on to its next statement with the locals `r`
Goto(p, label, r) ==
    /\ pc' = [pc EXCEPT ![p] = label]
    /\ reg' = [reg EXCEPT ![p] = r]
    /\ UNCHANGED <<req, resp>>

\* a pre-check that lets a duplicate through, as it adds no physical bytes
ExceedsLimitUnlessDuplicate(r) ==
    /\ ExistingBlobs(Sha256(r.content)) = {}
    /\ physical_total + r.declared > TOTAL_STORAGE_LIMIT

\* FileViewSet.create: current_stats['physical_total'] + file_obj.size >
\* total_storage_limit
exceeds_limit(r) == physical_total + r.declared > TOTAL_STORAGE_LIMIT

\* ------------------------------------------------------------------ upload
\* FileViewSet.create, first part: the request is accepted and the capacity
\* pre-check reads the statistics.
UploadPreCheck(p, r) ==
    /\ pc[p] = "idle"
    /\ nOps < MaxOps
    /\ nOps' = nOps + 1
    /\ IF exceeds_limit(r)
       THEN Answer(p, "400 limit")
       ELSE /\ pc' = [pc EXCEPT ![p] = "validate"]
            /\ req' = [req EXCEPT ![p] = [kind |-> "upload", content |-> r.content,
                                          declared |-> r.declared,
                                          ext |-> r.ext, mime |-> r.mime,
                                          scan |-> r.scan, target |-> 0]]
            /\ reg' = [reg EXCEPT ![p] = [NoRegs EXCEPT !.op = nOps + 1]]
            /\ resp' = [resp EXCEPT ![p] = "none"]
    /\ UNCHANGED <<lockVars, scannerVars, relFiles, cloudinary, blobs, files, storage, temps, nextBlob, nextFile,
                   okUploads>>

\* _process_upload_with_security, step 1: validate_file_security; create
\* answers a FileValidationError with 400
Validate(p) ==
    /\ pc[p] = "validate"
    /\ IF validate_file_security(req[p])
       THEN Goto(p, "hash", reg[p])
       ELSE Answer(p, "400 invalid")
    /\ UNCHANGED <<lockVars, scannerVars, relFiles, cloudinary, blobs, files, storage, temps, nOps, nextBlob,
                   nextFile, okUploads>>

\* step 2: _stream_and_hash_file_secure writes the temp file and hashes it
StreamAndHash(p) ==
    /\ pc[p] = "hash"
    /\ temps' = temps \cup {reg[p].op}
    /\ Goto(p, "scan", [reg[p] EXCEPT !.hash = Sha256(req[p].content)])
    /\ UNCHANGED <<lockVars, scannerVars, relFiles, cloudinary, blobs, files, storage, nOps, nextBlob, nextFile,
                   okUploads>>

\* step 2, an I/O error while streaming: the temp file is removed again
StreamFails(p) ==
    /\ pc[p] = "hash"
    /\ Answer(p, "500")
    /\ Disturb({Sha256(req[p].content)})
    /\ UNCHANGED <<lockVars, scannerVars, relFiles, cloudinary, blobs, files, storage, temps, nOps, nextBlob,
                   nextFile>>

\* step 3: analyze_file_for_sensitive_content, called before the try block:
\* an exception leaves _process_upload_with_security at once
Scan(p) ==
    /\ pc[p] = "scan"
    /\ LET r == analyze_file_for_sensitive_content(ScanCall(req[p])) IN
       IF r.raised
       THEN /\ Answer(p, "500")
            /\ Disturb({reg[p].hash})
       ELSE /\ Goto(p, "resolve", [reg[p] EXCEPT !.sens = r.result])
            /\ UNCHANGED okUploads
    /\ UNCHANGED <<lockVars, scannerVars, relFiles, cloudinary, blobs, files, storage, temps, nOps, nextBlob,
                   nextFile>>

\* step 4, get_or_create.  No row: the whole transaction (INSERT with
\* ref_count 0, move of the temp file, UPDATE of path, ref_count + 1) commits.
\* Row found: the temp file is discarded; the UPDATE follows in Increment.
Resolve(p) ==
    /\ pc[p] = "resolve"
    /\ LET h == reg[p].hash
           found == ExistingBlobs(h)
           path == get_blob_path(h)
           stored == IF MoveReturn(path) # <<>> THEN MoveReturn(path) ELSE path
       IN
       IF found = {}
       THEN /\ blobs' = blobs \cup {[id |-> nextBlob, sha256 |-> h,
                                      size |-> Size[req[p].content],
                                      path |-> stored, ref_count |-> 0 + 1]}
            /\ storage' = StoragePutNew(MoveTarget(path), req[p].content)
            /\ nextBlob' = nextBlob + 1
            /\ Goto(p, "record", [reg[p] EXCEPT !.blob = nextBlob])
       ELSE /\ Goto(p, "increment",
                    [reg[p] EXCEPT !.blob = (CHOOSE b \in found : TRUE).id])
            /\ UNCHANGED <<blobs, storage, nextBlob>>
    /\ temps' = temps \ {reg[p].op}
    /\ UNCHANGED <<lockVars, scannerVars, relFiles, cloudinary, files, nOps, nextFile, okUploads>>

\* step 4, no row, and the block raises after the INSERT: the backend write
\* fails or times out, or the path update, the increment or the commit fails
\* after the write.  The INSERT is rolled back and the temp file cleaned up;
\* the backend write is no part of the transaction, so the object is stored
\* or not
ResolveWriteFails(p) ==
    /\ pc[p] = "resolve"
    /\ ExistingBlobs(reg[p].hash) = {}
    /\ storage' \in {storage,
                     StoragePutNew(MoveTarget(get_blob_path(reg[p].hash)),
                                   req[p].content)}
    /\ temps' = temps \ {reg[p].op}
    /\ Answer(p, "500")
    /\ Disturb({reg[p].hash})
    /\ UNCHANGED <<lockVars, scannerVars, relFiles, cloudinary, blobs, files, nOps, nextBlob, nextFile>>

\* an increment that counts the reference twice
IncrementedTwice(b) == [b EXCEPT !.ref_count = b.ref_count + 2]

\* update(ref_count=F('ref_count') + 1): the row after the UPDATE
Incremented(b) == [b EXCEPT !.ref_count = b.ref_count + 1]

\* step 4, row found: filter(id=blob.id).update(ref_count=F('ref_count') + 1),
\* then refresh_from_db(), which raises DoesNotExist when the row is gone
Increment(p) ==
    /\ pc[p] = "increment"
    /\ IF BlobById(reg[p].blob) # {}
       THEN /\ blobs' = {IF b.id = reg[p].blob THEN Incremented(b) ELSE b
                         : b \in blobs}
            /\ Goto(p, "record", reg[p])
            /\ UNCHANGED okUploads
       ELSE /\ Answer(p, "500")
            /\ Disturb({reg[p].hash})
            /\ UNCHANGED blobs
    /\ UNCHANGED <<lockVars, scannerVars, relFiles, cloudinary, files, storage, temps, nOps, nextBlob, nextFile>>

\* step 5: File.objects.create(blob=blob, ...), outside the transaction.  The
\* foreign key makes it fail when the FileBlob row is gone; the except block
\* cleans the temp file and re-raises.
RecordCreate(p) ==
    /\ pc[p] = "record"
    /\ IF BlobById(reg[p].blob) # {}
       THEN /\ files' = files \cup {[id |-> nextFile, blob |-> reg[p].blob,
                                      content |-> req[p].content,
                                      name |-> "orig", at |-> nextFile,
                                      sens |-> reg[p].sens]}
            /\ nextFile' = nextFile + 1
            /\ Goto(p, "postcheck", [reg[p] EXCEPT !.file = nextFile])
            /\ UNCHANGED <<temps, okUploads>>
       ELSE /\ Answer(p, "500")
            /\ temps' = temps \ {reg[p].op}
            /\ Disturb({reg[p].hash})
            /\ UNCHANGED <<files, nextFile>>
    /\ UNCHANGED <<lockVars, scannerVars, relFiles, cloudinary, blobs, storage, nOps, nextBlob>>

\* step 5, the INSERT raises a database error (a value longer than its
\* column, a lost connection): same except block
RecordCreateFails(p) ==
    /\ pc[p] = "record"
    /\ temps' = temps \ {reg[p].op}
    /\ Answer(p, "500")
    /\ Disturb({reg[p].hash})
    /\ UNCHANGED <<lockVars, scannerVars, relFiles, cloudinary, blobs, files, storage, nOps, nextBlob, nextFile>>

\* FileViewSet.create, last part: the capacity post-check; over the limit the
\* new File row is deleted with file_record.delete()
PostCheck(p) ==
    /\ pc[p] = "postcheck"
    /\ IF physical_total > TOTAL_STORAGE_LIMIT
       THEN /\ files' = files \ FileById(reg[p].file)
            /\ Answer(p, "400 limit")
            /\ Disturb({reg[p].hash})
       ELSE /\ Answer(p, "201")
            /\ okUploads' = [okUploads EXCEPT ![reg[p].hash] =
                                 IF @ < 0 THEN @ ELSE @ + 1]
            /\ UNCHANGED files
    /\ UNCHANGED <<lockVars, scannerVars, relFiles, cloudinary, blobs, storage, temps, nOps, nextBlob, nextFile>>

\* ------------------------------------------------------------------ delete
\* FileViewSet.destroy: self.get_object(); an unknown id raises Http404,
\* which the handler's except Exception turns into a 500
GetObject(p, id) ==
    /\ pc[p] = "idle"
    /\ nOps < MaxOps
    /\ id \in 1..nextFile
    /\ nOps' = nOps + 1
    /\ IF FileById(id) # {}
       THEN LET f == CHOOSE x \in FileById(id) : TRUE IN
            /\ pc' = [pc EXCEPT ![p] = "delrec"]
            /\ req' = [req EXCEPT ![p] = [NoRequest EXCEPT !.kind = "delete",
                                                           !.target = id]]
            /\ reg' = [reg EXCEPT ![p] = [NoRegs EXCEPT !.op = nOps + 1,
                                                        !.file = id, !.blob = f.blob]]
            /\ resp' = [resp EXCEPT ![p] = "none"]
            /\ Disturb({b.sha256 : b \in BlobById(f.blob)})
       ELSE /\ Answer(p, "500")
            /\ UNCHANGED okUploads
    /\ UNCHANGED <<lockVars, scannerVars, relFiles, cloudinary, blobs, files, storage, temps, nextBlob, nextFile>>

\* file_instance.delete(): DELETE ... WHERE id = ...; no error when the row
\* is already gone
DeleteRecord(p) ==
    /\ pc[p] = "delrec"
    /\ files' = files \ FileById(reg[p].file)
    /\ Goto(p, "gc", reg[p])
    /\ UNCHANGED <<lockVars, scannerVars, relFiles, cloudinary, blobs, storage, temps, nOps, nextBlob, nextFile,
                   okUploads>>

\* _garbage_collect_blob reduced to an unchecked ref_count - 1: no CHECK on
\* the column, no reclaim at zero
GcPlainDecrement(b) ==
    [ok |-> TRUE,
     blobs |-> (blobs \ {b}) \cup {[b EXCEPT !.ref_count = b.ref_count - 1]},
     files |-> files,
     storage |-> storage]

\* _garbage_collect_blob reclaiming whatever the decremented count is
GcReclaimAlways(b) ==
    [ok |-> TRUE,
     blobs |-> blobs \ {b},
     files |-> files \ FilesOf(b.id),
     storage |-> _delete_blob_file(b.path)]

\* _garbage_collect_blob whose decrement of a shared blob is lost
GcLosesDecrement(b) ==
    IF b.ref_count - 1 <= 0
    THEN [ok |-> TRUE,
          blobs |-> blobs \ {b},
          files |-> files \ FilesOf(b.id),
          storage |-> _delete_blob_file(b.path)]
    ELSE [ok |-> TRUE, blobs |-> blobs, files |-> files, storage |-> storage]

\* _garbage_collect_blob whose blob.delete() leaves the File rows of the blob
GcWithoutCascade(b) ==
    IF b.ref_count - 1 < 0
    THEN [ok |-> FALSE, blobs |-> blobs, files |-> files, storage |-> storage]
    ELSE IF b.ref_count - 1 <= 0
    THEN [ok |-> TRUE,
          blobs |-> blobs \ {b},
          files |-> files,
          storage |-> _delete_blob_file(b.path)]
    ELSE [ok |-> TRUE,
          blobs |-> (blobs \ {b}) \cup {[b EXCEPT !.ref_count = b.ref_count - 1]},
          files |-> files,
          storage |-> storage]

\* _garbage_collect_blob writing the path anew on the row it keeps
GcRewritesPath(b) ==
    IF b.ref_count - 1 < 0
    THEN [ok |-> FALSE, blobs |-> blobs, files |-> files, storage |-> storage]
    ELSE IF b.ref_count - 1 <= 0
    THEN [ok |-> TRUE,
          blobs |-> blobs \ {b},
          files |-> files \ FilesOf(b.id),
          storage |-> _delete_blob_file(b.path)]
    ELSE [ok |-> TRUE,
          blobs |-> (blobs \ {b}) \cup {[b EXCEPT !.ref_count = b.ref_count - 1,
                                                  !.path = get_blob_path(b.sha256)]},
          files |-> files,
          storage |-> storage]

\* _garbage_collect_blob as a transaction on the row `b`: the tables after
\* its commit.  ref_count is a PositiveIntegerField: an UPDATE that would
\* store a negative value violates the column's CHECK and aborts.
\* blob.delete() cascades to the File rows that still reference the blob.
garbage_collect_blob(b) ==
    IF b.ref_count - 1 < 0
    THEN [ok |-> FALSE, blobs |-> blobs, files |-> files, storage |-> storage]
    ELSE IF b.ref_count - 1 <= 0
    THEN [ok |-> TRUE,
          blobs |-> blobs \ {b},
          files |-> files \ FilesOf(b.id),
          storage |-> _delete_blob_file(b.path)]
    ELSE [ok |-> TRUE,
          blobs |-> (blobs \ {b}) \cup {[b EXCEPT !.ref_count = b.ref_count - 1]},
          files |-> files,
          storage |-> storage]

\* destroy: self._garbage_collect_blob(blob).  With the row gone the UPDATE
\* matches nothing and refresh_from_db() raises DoesNotExist.
GarbageCollect(p) ==
    /\ pc[p] = "gc"
    /\ IF BlobById(reg[p].blob) = {}
       THEN /\ Answer(p, "500")
            /\ UNCHANGED <<blobs, files, storage, relFiles>>
       ELSE LET after == garbage_collect_blob(CHOOSE b \in BlobById(reg[p].blob) : TRUE) IN
            /\ blobs' = after.blobs
            /\ files' = after.files
            /\ storage' = after.storage
            /\ relFiles' = IF after.ok THEN relFiles \cup {reg[p].file} ELSE relFiles
            /\ Answer(p, IF after.ok THEN "204" ELSE "500")
    /\ UNCHANGED <<lockVars, scannerVars, cloudinary, temps, nOps, nextBlob, nextFile, okUploads>>

\* _garbage_collect_blob aborted after _delete_blob_file and before the
\* commit (blob.delete() raises a database error, or the worker is killed):
\* the database rolls back, the backend delete stays
GcAbortsAfterFileDelete(p) ==
    /\ pc[p] = "gc"
    /\ \E b \in BlobById(reg[p].blob) :
          /\ b.ref_count - 1 = 0
          /\ storage' = _delete_blob_file(b.path)
    /\ Answer(p, "500")
    /\ UNCHANGED <<lockVars, scannerVars, relFiles, cloudinary, blobs, files, temps, nOps, nextBlob, nextFile,
                   okUploads>>

\* an update that also writes the blob reference: the row is bound to another
\* FileBlob row when there is one
UpdatedRowRebinds(row) ==
    LET others == {b.id : b \in blobs} \ {row.blob} IN
    [row EXCEPT !.name = "renamed",
                !.blob = IF others = {} THEN row.blob
                         ELSE CHOOSE id \in others : TRUE]

\* ------------------------------------------------------------------ update
\* an update that would also take the scan fields from the request
UpdatedRowWithScan(row) == [row EXCEPT !.name = "renamed", !.sens = NotDetected]

\* FileSerializer.Meta: of the fields of a File only original_filename and
\* file_type are writable, the others (the three sensitive_* fields among
\* them) are read_only_fields and blob is no field of the serializer; the
\* update sets the writable ones on the instance
UpdatedRow(row) == [row EXCEPT !.name = "renamed"]

\* FileViewSet is a ModelViewSet registered on the router: PUT and PATCH
\* files/<id>/ call self.get_object(), which reads the row (404 for an
\* unknown id), and then save the instance
GetObjectForUpdate(p, id) ==
    /\ pc[p] = "idle"
    /\ nOps < MaxOps
    /\ id \in 1..nextFile
    /\ nOps' = nOps + 1
    /\ IF FileById(id) # {}
       THEN LET f == CHOOSE x \in FileById(id) : TRUE IN
            /\ pc' = [pc EXCEPT ![p] = "save"]
            /\ req' = [req EXCEPT ![p] = [NoRequest EXCEPT !.kind = "update",
                                                           !.target = id]]
            /\ reg' = [reg EXCEPT ![p] = [NoRegs EXCEPT !.op = nOps + 1,
                                                        !.file = id, !.blob = f.blob,
                                                        !.row = {f}]]
            /\ resp' = [resp EXCEPT ![p] = "none"]
            /\ Disturb({b.sha256 : b \in BlobById(f.blob)})
       ELSE /\ Answer(p, "404")
            /\ UNCHANGED okUploads
    /\ UNCHANGED <<lockVars, scannerVars, relFiles, cloudinary, blobs, files, storage, temps, nextBlob, nextFile>>

\* File.save() of the instance read before: an UPDATE of every column of the
\* row with the instance's values; when no row has the id any more the save
\* INSERTs the instance, uploaded_at (auto_now_add) being set anew, and the
\* foreign key makes the INSERT fail when the FileBlob row is gone
SaveRecord(p) ==
    /\ pc[p] = "save"
    /\ LET r == UpdatedRow(CHOOSE x \in reg[p].row : TRUE) IN
       IF FileById(r.id) # {}
       THEN /\ files' = (files \ FileById(r.id)) \cup {r}
            /\ Answer(p, "200")
            /\ UNCHANGED nextFile
       ELSE IF BlobById(r.blob) # {}
       THEN /\ files' = files \cup {[r EXCEPT !.at = nextFile]}
            /\ nextFile' = nextFile + 1
            /\ Answer(p, "200")
       ELSE /\ Answer(p, "500")
            /\ UNCHANGED <<files, nextFile>>
    /\ UNCHANGED <<lockVars, scannerVars, relFiles, cloudinary, blobs, storage, temps, nOps, nextBlob, okUploads>>

\* -------------------------------------------------------- remove_duplicates
\* remove_duplicates: the queryset duplicate_blobs is evaluated when the for
\* loop starts; the blobs it yields are the rows as read then
SelectDuplicates(p) ==
    /\ pc[p] = "idle"
    /\ nOps < MaxOps
    /\ nOps' = nOps + 1
    /\ LET dup == {b \in blobs : Cardinality(FilesOf(b.id)) > 1} IN
       /\ reg' = [reg EXCEPT ![p] = [NoRegs EXCEPT !.op = nOps + 1, !.snap = dup]]
       /\ Disturb({b.sha256 : b \in dup})
    /\ pc' = [pc EXCEPT ![p] = "dedupe"]
    /\ req' = [req EXCEPT ![p] = [NoRequest EXCEPT !.kind = "dedupe"]]
    /\ resp' = [resp EXCEPT ![p] = "none"]
    /\ UNCHANGED <<lockVars, scannerVars, relFiles, cloudinary, blobs, files, storage, temps, nextBlob, nextFile>>

\* files of blob id other than the newest one
AllButNewest(id) ==
    {f \in FilesOf(id) : \E g \in FilesOf(id) : g.at > f.at}

\* files of blob id that the loop body deletes: all but the first one of
\* blob.files.order_by('uploaded_at')
NewerFiles(id) ==
    {f \in FilesOf(id) : \E g \in FilesOf(id) : g.at < f.at}

\* removed_count: the sum of deleted_count over the blobs of the loop
RECURSIVE removed_count(_)
removed_count(snap) ==
    IF snap = {} THEN 0
    ELSE LET b == CHOOSE x \in snap : TRUE
         IN Cardinality(NewerFiles(b.id)) + removed_count(snap \ {b})

\* the loop body and the commit: per blob keep files.first(), delete the
\* others, and when some were deleted save the blob with ref_count = 1.
\* files.first() is None for a blob left without files: AttributeError, the
\* transaction rolls back.
RemoveDuplicates(p) ==
    /\ pc[p] = "dedupe"
    /\ LET snap == reg[p].snap
           saved == {b \in snap : NewerFiles(b.id) # {}}
       IN
       IF \E b \in snap : FilesOf(b.id) = {}
       THEN /\ Answer(p, "500")
            /\ UNCHANGED <<blobs, files>>
       ELSE /\ files' = files \ UNION {NewerFiles(b.id) : b \in snap}
            /\ blobs' = {b \in blobs : \A s \in saved : s.id # b.id}
                          \cup {[s EXCEPT !.ref_count = 1] : s \in saved}
            /\ Answer(p, "200")
    /\ UNCHANGED <<lockVars, scannerVars, relFiles, cloudinary, storage, temps, nOps, nextBlob, nextFile, okUploads>>

\* ---------------------------------------------------------------- the system
Next ==
    \/ \E p \in Procs, r \in UploadRequests : UploadPreCheck(p, r)
    \/ \E p \in Procs : Validate(p)
    \/ \E p \in Procs : StreamAndHash(p)
    \/ \E p \in Procs : StreamFails(p)
    \/ \E p \in Procs : Scan(p)
    \/ \E p \in Procs : Resolve(p)
    \/ \E p \in Procs : ResolveWriteFails(p)
    \/ \E p \in Procs : Increment(p)
    \/ \E p \in Procs : RecordCreate(p)
    \/ \E p \in Procs : RecordCreateFails(p)
    \/ \E p \in Procs : PostCheck(p)
    \/ \E p \in Procs, id \in 1..MaxOps : GetObject(p, id)
    \/ \E p \in Procs : DeleteRecord(p)
    \/ \E p \in Procs : GarbageCollect(p)
    \/ \E p \in Procs : GcAbortsAfterFileDelete(p)
    \/ \E p \in Procs, id \in 1..MaxOps : GetObjectForUpdate(p, id)
    \/ \E p \in Procs : SaveRecord(p)
    \/ \E p \in Procs : SelectDuplicates(p)
    \/ \E p \in Procs : RemoveDuplicates(p)

Spec == Init /\ [][Next]_vars

Quiescent == \A p \in Procs : pc[p] = "idle"

\* ------------------------------------------------- the scanner on its own
\* The words a text is made of: one that matches no pattern, one for each
\* pattern and the keyword list, and a person's name.
ScanTokens ==
    {"hello", "john@example.com", "+1 555 123 4567", "username", "password",
     "otp", "John Smith"}

\* The texts scanned: those of at most two words, one with three markers
\* and one with every marker
ScanTexts ==
    {<<>>} \cup {<<t>> : t \in ScanTokens}
    \cup {<<t, u>> : t, u \in ScanTokens}
    \cup {<<"hello", "password", "+1 555 123 4567", "john@example.com">>,
          <<"username", "+1 555 123 4567", "password", "john@example.com", "otp">>}

\* The calls of analyze_file_for_sensitive_content tried: scanning enabled
\* or not, a supported and an unsupported extension, a file at and above
\* the byte ceiling, a text ceiling within and beyond the texts, spaCy
\* usable or not, and the two places an exception can come from
ScanInputs ==
    [enabled : BOOLEAN, ext : {"txt", "png"},
     size : {SENSITIVE_SCAN_MAX_BYTES, SENSITIVE_SCAN_MAX_BYTES + 1},
     max_bytes : {SENSITIVE_SCAN_MAX_BYTES}, text : ScanTexts,
     max_chars : {1, 2, SENSITIVE_SCAN_MAX_TEXT_CHARS}, spacy : BOOLEAN,
     fail : {"none", "config", "ner"}]

\* a fresh worker process (_NLP = None, _SPACY_INIT_ATTEMPTED = False) and
\* one file to scan
ScanInit ==
    /\ cloudinary = FALSE
    /\ blobs = {}
    /\ files = {}
    /\ storage = {}
    /\ temps = {}
    /\ pc = [p \in Procs |-> "idle"]
    /\ req = [p \in Procs |-> NoRequest]
    /\ reg = [p \in Procs |-> NoRegs]
    /\ resp = [p \in Procs |-> "none"]
    /\ nOps = 0
    /\ nextBlob = 1
    /\ nextFile = 1
    /\ okUploads = [h \in Digests |-> 0]
    /\ relFiles = {}
    /\ _NLP = FALSE
    /\ _SPACY_INIT_ATTEMPTED = FALSE
    /\ scanArgs \in ScanInputs
    /\ scanOut = <<>>
    /\ rowLock = [h \in Digests |-> 0]
    /\ txn = [p \in Procs |-> NoTxn]

\* analyze_file_for_sensitive_content(scanArgs): its outcome is recorded;
\* _get_nlp sets the globals when the call gets to _detect_markers
AnalyzeFile ==
    /\ Len(scanOut) < MaxScans
    /\ scanOut' = Append(scanOut, analyze_file_for_sensitive_content(scanArgs))
    /\ IF ReachesDetection(scanArgs)
       THEN /\ _NLP' = _get_nlp(scanArgs)._NLP
            /\ _SPACY_INIT_ATTEMPTED' = _get_nlp(scanArgs)._SPACY_INIT_ATTEMPTED
       ELSE UNCHANGED <<_NLP, _SPACY_INIT_ATTEMPTED>>
    /\ UNCHANGED <<lockVars, scanArgs, cloudinary, blobs, files, storage, temps, pc, req, reg,
                   resp, nOps, nextBlob, nextFile, okUploads, relFiles>>

ScanNext == AnalyzeFile

ScanSpec == ScanInit /\ [][ScanNext]_vars

\* ------------------------------------------- the transactions and their locks
\* The three transaction.atomic() blocks, reduced to the FileBlob rows they
\* write.  A row written in a transaction stays locked until the block is
\* left; a second writer of the row (and a second INSERT of the same sha256)
\* waits for that.
\* _process_upload_with_security: get_or_create(sha256=h) inserts the row or
\* reads it, update(ref_count=F('ref_count') + 1) writes it
UploadTxn == {[kind |-> "upload", todo |-> <<h>>] : h \in Digests}

\* _garbage_collect_blob: update(ref_count=F('ref_count') - 1), blob.delete()
GcTxn == {[kind |-> "gc", todo |-> <<h>>] : h \in Digests}

\* remove_duplicates: blob.save() for each blob of duplicate_blobs that had
\* newer files, in the order the queryset yields them (it has no order_by)
DedupeTxn ==
    {[kind |-> "dedupe", todo |-> o] :
        o \in {s \in UNION {[1..n -> Digests] : n \in 1..Cardinality(Digests)} :
                  \A i, j \in DOMAIN s : i # j => s[i] # s[j]}}

Transactions == UploadTxn \cup GcTxn \cup DedupeTxn

\* the state of the handlers and the tables
handlerVars == <<cloudinary, blobs, files, storage, temps, pc, req, reg, resp,
                 nOps, nextBlob, nextFile, okUploads, relFiles>>

\* with transaction.atomic():
BeginTransaction(p, t) ==
    /\ txn[p] = NoTxn
    /\ txn' = [txn EXCEPT ![p] = t]
    /\ UNCHANGED <<rowLock, scannerVars, handlerVars>>

\* the next write of the block: it is done when no other transaction holds
\* the row, and waits otherwise
LockRow(p) ==
    /\ txn[p].todo # <<>>
    /\ rowLock[Head(txn[p].todo)] = 0
    /\ rowLock' = [rowLock EXCEPT ![Head(txn[p].todo)] = p]
    /\ txn' = [txn EXCEPT ![p].todo = Tail(@)]
    /\ UNCHANGED <<scannerVars, handlerVars>>

\* a block left without giving back its rows
ReleaseNothing(p) == rowLock

\* the row locks after worker p has left its block
release(p) == [h \in Digests |-> IF rowLock[h] = p THEN 0 ELSE rowLock[h]]

\* the block is left, by its last statement or by an exception of a
\* statement after the writes: commit or rollback, the rows are free
Commit(p) ==
    /\ txn[p] # NoTxn
    /\ txn[p].todo = <<>>
    /\ rowLock' = release(p)
    /\ txn' = [txn EXCEPT ![p] = NoTxn]
    /\ UNCHANGED <<scannerVars, handlerVars>>

\* the worker whose transaction holds the row worker p waits for, 0 when p
\* does not wait
Holder(p) == IF txn[p].todo = <<>> THEN 0 ELSE rowLock[Head(txn[p].todo)]

\* worker p waits for a row of q, or of a worker that waits for q in at most
\* n steps
RECURSIVE Blocks(_, _, _)
Blocks(p, q, n) ==
    /\ n > 0
    /\ Holder(p) # 0
    /\ \/ Holder(p) = q
       \/ Blocks(Holder(p), q, n - 1)

Deadlocked(p) == Blocks(p, p, Cardinality(Procs))

\* the database finds the cycle and aborts one of its transactions: the
\* write raises, the block rolls back, the handler's except answers 500
DeadlockAbort(p) ==
    /\ Deadlocked(p)
    /\ rowLock' = release(p)
    /\ txn' = [txn EXCEPT ![p] = NoTxn]
    /\ UNCHANGED <<scannerVars, handlerVars>>

LockNext ==
    \/ \E p \in Procs, t \in Transactions : BeginTransaction(p, t)
    \/ \E p \in Procs : LockRow(p)
    \/ \E p \in Procs : Commit(p)
    \/ \E p \in Procs : DeadlockAbort(p)

\* every worker runs; the database serves the waiters of a row in turn
LockFairness ==
    \A p \in Procs :
       /\ SF_vars(LockRow(p))
       /\ WF_vars(Commit(p))
       /\ WF_vars(DeadlockAbort(p))

LockSpec == Init /\ [][LockNext]_vars /\ LockFairness

\* ------------------------------------------------------------------- claims
BlobIds(rows) == {b.id : b \in rows}

\* the FileBlob rows that carry the digest h
RowsOfDigest(h) == {b \in blobs : b.sha256 = h}

\* the worker p leaves the statement at `label` in this step
Leaves(p, label) == pc[p] = label /\ pc'[p] # label

\* the release of _garbage_collect_blob has been applied to row b in this
\* step: the row is gone, or its ref_count is one lower
Released(b) ==
    \/ b.id \notin BlobIds(blobs')
    \/ \E a \in blobs' : a.id = b.id /\ a.ref_count = b.ref_count - 1

\* C1: at every quiescent point each FileBlob row's ref_count equals the
\* number of File rows that reference it.
C1_RefCountMatchesRecords ==
    Quiescent => \A b \in blobs : b.ref_count = Cardinality(FilesOf(b.id))

\* C2: there is never more than one FileBlob row per digest; and once all the
\* uploads of a content have been answered 201 (nothing else worked on its
\* digest) there is exactly one row, whose ref_count is the number of File
\* rows referencing it, one per upload.
C2_OneBlobPerDigest ==
    /\ \A h \in Digests : Cardinality(RowsOfDigest(h)) <= 1
    /\ \A h \in Digests :
          (Quiescent /\ okUploads[h] > 0) =>
             /\ Cardinality(RowsOfDigest(h)) = 1
             /\ \A b \in RowsOfDigest(h) :
                   /\ b.ref_count = Cardinality(FilesOf(b.id))
                   /\ b.ref_count = okUploads[h]

\* two uploads of the same content have both been answered 201
C2_Witness ==
    /\ Quiescent
    /\ \E h \in Digests : okUploads[h] = 2
    /\ \A p \in Procs : resp[p] = "201"

\* C3: the release step of a delete whose blob is still referenced by another
\* File row keeps the FileBlob row with ref_count lowered by one (>= 1),
\* keeps the backend objects and keeps every other File row.
C3_SharedBlobSurvivesDelete ==
    [][\A p \in Procs :
          (Leaves(p, "gc") /\ \E b \in BlobById(reg[p].blob) : FilesOf(b.id) # {})
          => /\ \A b \in BlobById(reg[p].blob) :
                   \E a \in blobs' : /\ a.id = b.id
                                      /\ a.ref_count = b.ref_count - 1
                                      /\ a.ref_count >= 1
             /\ storage' = storage
             /\ files' = files]_vars

\* C4: a delete answered 204 that released the blob of the last File row
\* referencing it leaves neither the FileBlob row nor an object at the
\* location a download of that blob reads.
C4_LastDeleteReclaims ==
    [][\A p \in Procs :
          (Leaves(p, "gc") /\ resp'[p] = "204")
          => \A b \in BlobById(reg[p].blob) :
                FilesOf(b.id) = {}
                => /\ b.id \notin BlobIds(blobs')
                   /\ \A o \in storage' : o.loc # DownloadTarget(b.path)]_vars

\* C5: no FileBlob row ever holds a negative ref_count.
C5_RefCountNonNegative == \A b \in blobs : b.ref_count >= 0

\* a second delete request for the only Record ever created stands at its
\* release step after the first one was answered 204 and reclaimed the blob
C5_Witness ==
    \E p, q \in Procs :
       /\ p # q
       /\ pc[p] = "gc" /\ BlobById(reg[p].blob) = {}
       /\ pc[q] = "idle" /\ resp[q] = "204"
       /\ nextFile = 2

\* C6: an upload whose File row cannot be created releases the blob it had
\* resolved, as a delete does, and leaves no temp file.
C6_FailedRecordCreateReleases ==
    [][\A p \in Procs :
          (Leaves(p, "record") /\ pc'[p] = "idle")
          => /\ \A b \in BlobById(reg[p].blob) : Released(b)
             /\ reg[p].op \notin temps']_vars

\* C7: an upload rejected by the capacity post-check deletes its File row and
\* releases its blob.
C7_CapacityRollbackReleases ==
    [][\A p \in Procs :
          (Leaves(p, "postcheck") /\ resp'[p] = "400 limit")
          => /\ FileById(reg[p].file) \cap files' = {}
             /\ \A b \in BlobById(reg[p].blob) : Released(b)]_vars

\* C8: every File row returned by an upload references a FileBlob row, and
\* the object a download reads for it holds the uploaded content.
C8_RoundTrip ==
    \A f \in files :
       (\A p \in Procs : ~(pc[p] = "postcheck" /\ reg[p].file = f.id))
       => \E b \in BlobById(f.blob) :
             \E o \in storage : /\ o.loc = DownloadTarget(b.path)
                                 /\ o.data = f.content
                                 /\ Sha256(o.data) = b.sha256

\* a file that breaks a validation rule: too large, a blocked or not allowed
\* extension, a MIME type that is not allowed
C9_Invalid(r) ==
    \/ r.declared > MAX_UPLOAD_SIZE
    \/ r.ext \in BLOCKED_FILE_EXTENSIONS
    \/ r.ext \notin ALLOWED_FILE_EXTENSIONS
    \/ r.mime \notin ALLOWED_MIME_TYPES

\* C9: the validation of a file that breaks a rule answers 400 and changes
\* no FileBlob row, File row, backend object or temp file.
C9_InvalidUploadRejected ==
    [][\A p \in Procs :
          (Leaves(p, "validate") /\ C9_Invalid(req[p]))
          => /\ pc'[p] = "idle"
             /\ resp'[p] = "400 invalid"
             /\ UNCHANGED <<blobs, files, storage, temps>>]_vars

\* an upload has been answered with the validation error
C9_Witness ==
    \E p \in Procs : pc[p] = "idle" /\ resp[p] = "400 invalid"

\* the scan result of a text whose only marker is an e-mail address
EmailDetected ==
    [detected |-> TRUE, markers |-> <<"email">>, summary |-> "Contains email address"]

\* C10: whatever the scanner meets, the upload goes on from scanning to the
\* commit with a scan result.
C10_ScanNeverFailsUpload ==
    [][\A p \in Procs :
          Leaves(p, "scan")
          => /\ pc'[p] = "resolve"
             /\ reg'[p].sens \in {NotDetected, EmailDetected}]_vars

\* C11: every temp file belongs to an upload that is still running: once an
\* upload has ended, however it ended, its temp file is gone.
C11_NoTempAfterUpload ==
    \A op \in temps : \E p \in Procs : pc[p] # "idle" /\ reg[p].op = op

\* C12: streaming a source that yields more bytes than MAX_UPLOAD_SIZE ends
\* the upload with an error, without temp file, FileBlob row or File row.
C12_StreamEnforcesMaxSize ==
    [][\A p \in Procs :
          (Leaves(p, "hash") /\ Size[req[p].content] > MAX_UPLOAD_SIZE)
          => /\ pc'[p] = "idle"
             /\ resp'[p] \notin {"none", "201"}
             /\ reg[p].op \notin temps'
             /\ UNCHANGED <<blobs, files>>]_vars

\* C13: over all the delete requests for a File id, a release is applied to
\* its blob once.
C13_ReleaseOncePerDeletion ==
    [][\A p \in Procs :
          (Leaves(p, "gc") /\ resp'[p] = "204") => reg[p].file \notin relFiles]_vars

\* C14: savings is reported_total - physical_total; the increment and the
\* File row of an upload leave physical_total alone and the File row raises
\* reported_total by the size of its blob; and when every File row has been
\* deleted and nothing runs, physical_total is 0.
C14_StatsFollowUploadsAndDeletes ==
    /\ [](savings = reported_total - physical_total)
    /\ []((Quiescent /\ nextFile > 1 /\ files = {}) => physical_total = 0)
    /\ [][\A p \in Procs :
             /\ Leaves(p, "increment")
                => /\ physical_total' = physical_total
                   /\ reported_total' = reported_total
             /\ (Leaves(p, "record") /\ pc'[p] = "postcheck")
                => /\ physical_total' = physical_total
                   /\ reported_total' =
                         reported_total + SumSize(BlobById(reg[p].blob))]_vars

\* C15: with nothing running and a FileBlob row present, physical_total is at
\* most reported_total and dedup_ratio is in [0, 1); dedup_ratio is 0 when
\* reported_total is 0 and when no two File rows share a blob.
C15_DedupRatioRange ==
    Quiescent =>
       /\ blobs # {} => /\ physical_total <= reported_total
                        /\ 0 <= dedup_ratio
                        /\ dedup_ratio < 1000000
       /\ reported_total = 0 => dedup_ratio = 0
       /\ (\A f, g \in files : f.blob = g.blob => f = g) => dedup_ratio = 0

\* C16: a delete request for an id without File row is answered 404 and
\* changes no FileBlob row, File row or stored object.
C16_DeleteUnknownIsNotFound ==
    [][\A p \in Procs, id \in 1..MaxOps :
          (GetObject(p, id) /\ FileById(id) = {})
          => /\ resp'[p] = "404"
             /\ UNCHANGED <<blobs, files, storage>>]_vars

\* C17: remove_duplicates running alone keeps of every blob the oldest File
\* row and deletes the others; each blob it worked on has ref_count 1, no
\* FileBlob row or stored object goes, and removed_count is the number of
\* File rows deleted.
C17_RemoveDuplicatesKeepsOldest ==
    [][\A p \in Procs :
          (/\ Leaves(p, "dedupe")
           /\ \A q \in Procs \ {p} : pc[q] = "idle"
           /\ reg[p].snap = {b \in blobs : Cardinality(FilesOf(b.id)) > 1})
          => /\ resp'[p] = "200"
             /\ files' = {f \in files :
                            \A g \in files : g.blob = f.blob => g.at >= f.at}
             /\ \A f, g \in files' : f.blob = g.blob => f = g
             /\ \A b \in reg[p].snap :
                   \E a \in blobs' : a.id = b.id /\ a.ref_count = 1
             /\ BlobIds(blobs') = BlobIds(blobs)
             /\ storage' = storage
             /\ removed_count(reg[p].snap) = Cardinality(files \ files')]_vars

\* remove_duplicates has run alone on a blob with two File rows
C17_Witness ==
    \E p \in Procs :
       /\ Quiescent
       /\ resp[p] = "200"
       /\ nextFile = 3
       /\ Cardinality(files) = 1
       /\ \E b \in blobs : b.ref_count = 1 /\ FilesOf(b.id) = files

\* a supported file whose text holds an e-mail address and no other marker
C18_EmailOnly(r) ==
    /\ r.ext \in DEFAULT_SUPPORTED_EXTENSIONS
    /\ r.scan \notin {"configFail", "nerFail"}
    /\ MarkersOf(ExtractedText(r), TRUE) = {"email"}

\* C18: scanning a supported text whose only marker is an e-mail address
\* gives detected, the markers <<"email">> and "Contains email address".
C18_EmailScanResult ==
    [][\A p \in Procs :
          (Leaves(p, "scan") /\ C18_EmailOnly(req[p]))
          => reg'[p].sens = EmailDetected]_vars

\* a text with an e-mail address has been scanned
C18_Witness ==
    \E p \in Procs : pc[p] = "resolve" /\ C18_EmailOnly(req[p])

\* the uploads that hold a counted reference to blob id without a File row
InFlightRefs(id) == {q \in Procs : pc[q] = "record" /\ reg[q].blob = id}

C20_NoLostUpdate ==
    [][\A b \in blobs : \A a \in blobs' :
          (a.id = b.id /\ \A p \in Procs : ~Leaves(p, "dedupe"))
          => a.ref_count - b.ref_count =
                Cardinality({p \in Procs : /\ Leaves(p, "increment")
                                           /\ pc'[p] = "record"
                                           /\ reg[p].blob = b.id})
                - Cardinality({p \in Procs : /\ Leaves(p, "gc")
                                             /\ resp'[p] = "204"
                                             /\ reg[p].blob = b.id})]_vars

\* with two File rows on a blob, the third request, an upload of the same
\* content, is past its increment and the fourth, a delete, has been
\* answered: 2 + 1 - 1
C20_Witness ==
    \E p, q \in Procs :
       /\ pc[p] = "record" /\ reg[p].op = 3
       /\ pc[q] = "idle" /\ resp[q] = "204"
       /\ nOps = 4
       /\ \E b \in BlobById(reg[p].blob) :
             b.ref_count = 2 /\ Cardinality(FilesOf(b.id)) = 1

\* C21: ref_count is only written relative to its current value: every step
\* changes the ref_count of a FileBlob row that stays by the increments
\* applied to it, minus the releases applied to it, minus the File rows of
\* it that a remove_duplicates deleted in the step; no step stores a count
\* worked out from an earlier read.
C21_RefCountWritesAreRelative ==
    [][\A b \in blobs : \A a \in blobs' :
          a.id = b.id
          => a.ref_count - b.ref_count =
                Cardinality({p \in Procs : /\ Leaves(p, "increment")
                                           /\ pc'[p] = "record"
                                           /\ reg[p].blob = b.id})
                - Cardinality({p \in Procs : /\ Leaves(p, "gc")
                                             /\ resp'[p] = "204"
                                             /\ reg[p].blob = b.id})
                - Cardinality({f \in FilesOf(b.id) :
                                  /\ f \notin files'
                                  /\ \E p \in Procs : Leaves(p, "dedupe")})]_vars

\* C22: the increment of ref_count and the creation of the File row commit
\* together: a step that creates a FileBlob row with its first count, or
\* raises the ref_count of one, also inserts a File row that references it.
C22_IncrementCommitsWithRecord ==
    [][\A a \in blobs' :
          (\/ a.id \notin BlobIds(blobs)
           \/ \E b \in blobs : b.id = a.id /\ a.ref_count > b.ref_count)
          => \E f \in files' \ files : f.blob = a.id]_vars

C24_ReclaimLeavesNoBytesWithoutRow ==
    [][\A b \in blobs :
          b.id \notin BlobIds(blobs')
          => ~\E o \in storage' : o.loc = DownloadTarget(b.path)]_vars

\* C25: an upload whose digest already has a FileBlob row writes nothing to
\* the backend and discards its temp file, and its increment raises the
\* ref_count of that row by exactly one; sha256, size, path and the stored
\* objects stay as they are.
C25_DuplicateUploadOnlyIncrements ==
    [][\A p \in Procs :
          /\ (Leaves(p, "resolve") /\ RowsOfDigest(reg[p].hash) # {})
             => /\ pc'[p] = "increment"
                /\ reg'[p].blob \in BlobIds(RowsOfDigest(reg[p].hash))
                /\ reg[p].op \notin temps'
                /\ storage' = storage
                /\ blobs' = blobs
          /\ (Leaves(p, "increment") /\ BlobById(reg[p].blob) # {})
             => /\ pc'[p] = "record"
                /\ storage' = storage
                /\ blobs' = {b \in blobs : b.id # reg[p].blob}
                              \cup {[b EXCEPT !.ref_count = b.ref_count + 1] :
                                       b \in BlobById(reg[p].blob)}]_vars

\* the second upload of a content is past its increment: one FileBlob row
\* with ref_count 2, one stored object, no temp file
C25_Witness ==
    \E p \in Procs :
       /\ pc[p] = "record" /\ reg[p].op = 2
       /\ nOps = 2
       /\ nextBlob = 2
       /\ Cardinality(storage) = 1
       /\ temps = {}
       /\ \E b \in BlobById(reg[p].blob) :
             b.ref_count = 2 /\ Cardinality(FilesOf(b.id)) = 1

\* the stages of an upload in the order of _process_upload_with_security:
\* validating, hashing, scanning, the commit (row resolution, increment, File
\* row) and the end of the request
C26_Order ==
    {<<"validate", "hash">>, <<"hash", "scan">>, <<"scan", "resolve">>,
     <<"resolve", "increment">>, <<"resolve", "record">>,
     <<"increment", "record">>, <<"record", "postcheck">>,
     <<"postcheck", "idle">>}

\* C26: an upload moves through validating, hashing, scanning and committing
\* in this order or ends in a failure; the File row of an upload is created
\* as the last step of the commit, for a file that passed validation, with
\* the digest computed and the scan finished, on a FileBlob row of that
\* digest that exists and is counted; an upload answered 201 returns the id
\* of the File row it created.
C26_StagesInOrder ==
    [][\A p \in Procs :
          /\ (req[p].kind = "upload" /\ pc'[p] # pc[p])
             => \/ <<pc[p], pc'[p]>> \in C26_Order
                \/ pc'[p] = "idle" /\ resp'[p] \in {"400 invalid", "400 limit", "500"}
          /\ (\E f \in files' : f.id = nextFile)
             => \E q \in Procs : Leaves(q, "record") /\ pc'[q] = "postcheck"
          /\ (Leaves(p, "record") /\ pc'[p] = "postcheck")
             => \E f \in files' \ files :
                   /\ files' = files \cup {f}
                   /\ f.id = nextFile /\ reg'[p].file = f.id
                   /\ ~C9_Invalid(req[p])
                   /\ reg[p].hash = Sha256(req[p].content)
                   /\ ~analyze_file_for_sensitive_content(ScanCall(req[p])).raised
                   /\ f.sens = analyze_file_for_sensitive_content(ScanCall(req[p])).result
                   /\ \E b \in BlobById(f.blob) :
                         b.sha256 = reg[p].hash /\ b.ref_count >= 1
          /\ (Leaves(p, "postcheck") /\ resp'[p] = "201")
             => reg[p].file \in 1..(nextFile - 1)]_vars

\* one upload has been answered 201 and its File row, with the scan result
\* of a text holding an e-mail address, references the FileBlob row
C26_Witness ==
    \E p \in Procs :
       /\ pc[p] = "idle" /\ resp[p] = "201"
       /\ nOps = 1
       /\ \E f \in files :
             /\ f.id = 1 /\ f.sens.detected
             /\ \E b \in BlobById(f.blob) : b.ref_count = 1

\* C27: a step of an upload or of a delete acting on digest d leaves the
\* FileBlob rows and the stored objects of the other digests as they are,
\* and every File row but the one the request created or deleted.
C27_OtherDigestsAndRecordsUntouched ==
    [][\A p \in Procs :
          (pc'[p] # pc[p] /\ req[p].kind \in {"upload", "delete"})
          => LET d == IF req[p].kind = "upload"
                      THEN {Sha256(req[p].content)}
                      ELSE {b.sha256 : b \in BlobById(reg[p].blob)}
             IN /\ {b \in blobs' : b.sha256 \notin d}
                      = {b \in blobs : b.sha256 \notin d}
                /\ {o \in storage' : Sha256(o.data) \notin d}
                      = {o \in storage : Sha256(o.data) \notin d}
                /\ {f \in files' : f.id \notin {reg[p].file, reg'[p].file}}
                      = {f \in files : f.id # reg[p].file}]_vars

\* C28: sha256, size and path of a FileBlob row are those committed by the
\* upload that created it, the digest and length of its content and the
\* blob path or the identifier the backend returned for it, and no step
\* changes them while the row exists.
C28_BlobIdentityFixed ==
    [][/\ \A b \in blobs : \A a \in blobs' :
             a.id = b.id
             => a.sha256 = b.sha256 /\ a.size = b.size /\ a.path = b.path
       /\ \A a \in blobs' :
             a.id \notin BlobIds(blobs)
             => \E p \in Procs :
                   /\ Leaves(p, "resolve")
                   /\ reg'[p].blob = a.id
                   /\ a.sha256 = Sha256(req[p].content)
                   /\ a.size = Size[req[p].content]
                   /\ a.path = IF cloudinary
                               THEN InCloudFolder(PublicIdPart(get_blob_path(a.sha256)))
                               ELSE get_blob_path(a.sha256)]_vars

\* the Cloudinary backend: of two File rows on a FileBlob row one has been
\* deleted, and the row still carries the identifier the backend returned
C28_Witness ==
    \E p \in Procs :
       /\ cloudinary
       /\ pc[p] = "idle" /\ resp[p] = "204"
       /\ nOps = 3
       /\ \E b \in blobs :
             /\ b.ref_count = 1 /\ Cardinality(FilesOf(b.id)) = 1
             /\ StartsWithSecureVault(b.path)
             /\ StorageHas(b.path)

\* C29: the object the reclaim of a FileBlob row asks the backend to delete
\* is the object the creating upload stored for it, on either backend.
C29_DeleteAddressesStoredObject ==
    \A b \in blobs : DeleteTarget(b.path) = MoveTarget(get_blob_path(b.sha256))

\* C30: the sens of a File row is the scanner's result for the upload that
\* created it, computed before the INSERT and written with it; no step
\* changes the sens of a File row, and a save that finds its row gone writes
\* the sens it had read.
C30_ScanResultFixed ==
    [][/\ \A f \in files : \A g \in files' : g.id = f.id => g.sens = f.sens
       /\ \A p \in Procs :
             /\ (Leaves(p, "record") /\ pc'[p] = "postcheck")
                => \E f \in files' \ files :
                      /\ f.id = reg'[p].file
                      /\ reg[p].sens = analyze_file_for_sensitive_content(ScanCall(req[p])).result
                      /\ f.sens = reg[p].sens
             /\ Leaves(p, "save")
                => \A g \in files' : \A f \in reg[p].row :
                      g.id = f.id => g.sens = f.sens]_vars

\* a File row with a detected e-mail address has been renamed through the
\* API
C30_Witness ==
    \E p \in Procs :
       /\ pc[p] = "idle" /\ resp[p] = "200"
       /\ nOps = 2
       /\ \E f \in files : f.name = "renamed" /\ f.sens.detected

\* a scan result is well formed
C31_WellFormed(r) ==
    /\ r.detected <=> r.markers # <<>>
    /\ \A i, j \in 1..Len(r.markers) :
          i < j => MarkerRank[r.markers[i]] < MarkerRank[r.markers[j]]
    /\ r.summary = "" <=> ~r.detected

\* C31: every result the scanner returns is well formed (detected exactly
\* when there are markers, the markers strictly ascending, the summary empty
\* exactly when nothing was detected), and the scans of one file under one
\* configuration all have the same outcome.
C31_ScanResultWellFormed ==
    /\ \A i \in 1..Len(scanOut) :
          ~scanOut[i].raised => C31_WellFormed(scanOut[i].result)
    /\ \A i, j \in 1..Len(scanOut) : scanOut[i] = scanOut[j]

\* a text with an e-mail address and a person's name has been scanned twice
\* by a process that loaded the spaCy pipeline in the first scan
C31_Witness ==
    /\ Len(scanOut) = 2
    /\ scanArgs.text = <<"john@example.com", "John Smith">>
    /\ _NLP
    /\ scanOut[2].result.markers = <<"credential_keyword", "email">>

\* the human label of a marker kind
C32_Label(m) ==
    CASE m = "email" -> "email address"
      [] m = "phone" -> "phone number"
      [] m = "username" -> "username"
      [] m = "password" -> "password"
      [] m = "credential_keyword" -> "other sensitive keyword"

\* the labels of the markers ms[from..to] separated by ", "
RECURSIVE C32_Listed(_, _, _)
C32_Listed(ms, from, to) ==
    IF from > to THEN ""
    ELSE IF from = to THEN C32_Label(ms[from])
    ELSE C32_Label(ms[from]) \o ", " \o C32_Listed(ms, from + 1, to)

\* C32: the summary of a result with markers lists their labels in the order
\* of the markers: "Contains X" for one marker, and for k >= 2 markers
\* "Contains ", the first k-1 labels joined by ", ", " and " and the last
\* label.
C32_SummaryFormat ==
    \A i \in 1..Len(scanOut) :
       LET r == scanOut[i].result
           k == Len(r.markers)
       IN (~scanOut[i].raised /\ k >= 1)
          => r.summary =
                IF k = 1 THEN "Contains " \o C32_Label(r.markers[1])
                ELSE "Contains " \o C32_Listed(r.markers, 1, k - 1)
                     \o " and " \o C32_Label(r.markers[k])

\* the text with every marker has been scanned
C32_Witness ==
    /\ Len(scanOut) >= 1
    /\ scanOut[1].result.markers =
          <<"credential_keyword", "email", "password", "phone", "username">>
    /\ scanOut[1].result.summary =
          "Contains other sensitive keyword, email address, password, phone number and username"

\* the not-detected outcome
C33_Empty == [raised |-> FALSE, result |-> NotDetected]

\* the marker kinds with a match among the first n words of the text
C33_KindsWithin(text, n) ==
    {k \in {"email", "phone", "username", "password", "credential_keyword"} :
        \E i \in 1..Len(text) :
           /\ i <= n
           /\ \/ k = "email" /\ text[i] = "john@example.com"
              \/ k = "phone" /\ text[i] = "+1 555 123 4567"
              \/ k = "username" /\ text[i] = "username"
              \/ k = "password" /\ text[i] = "password"
              \/ k = "credential_keyword" /\ text[i] \in {"otp", "John Smith"}}

\* C33: the scanner returns the empty not-detected result when scanning is
\* disabled and, its settings being readable, when the extension is not
\* supported, the file is larger than the byte ceiling or the extracted text
\* is empty; the markers of a result all have a match within the first
\* max_chars of the text.
C33_NotDetectedCases ==
    \A i \in 1..Len(scanOut) :
       /\ ~scanArgs.enabled => scanOut[i] = C33_Empty
       /\ (/\ scanArgs.fail # "config"
           /\ \/ scanArgs.ext \notin {"pdf", "txt", "doc", "docx", "rtf"}
              \/ scanArgs.size > scanArgs.max_bytes
              \/ scanArgs.text = <<>>)
          => scanOut[i] = C33_Empty
       /\ \A j \in 1..Len(scanOut[i].result.markers) :
             scanOut[i].result.markers[j]
                \in C33_KindsWithin(scanArgs.text, scanArgs.max_chars)

\* a text with a password among its first two words and a phone number and
\* an e-mail address after them has been scanned with a ceiling of two
C33_Witness ==
    /\ Len(scanOut) >= 1
    /\ scanArgs.text = <<"hello", "password", "+1 555 123 4567", "john@example.com">>
    /\ scanArgs.max_chars = 2
    /\ scanOut[1].result.markers = <<"password">>

\* C34: the capacity pre-check is advisory: the step that passes it reserves
\* nothing (FileBlob rows, File rows, stored objects and temp files are as
\* before), and the physical total gets above the limit by the commit of a
\* blob by an upload that passed the pre-check and has not reached its
\* post-check.
C34_PreCheckAdvisory ==
    [][/\ \A p \in Procs :
             (pc[p] = "idle" /\ pc'[p] = "validate")
             => /\ physical_total + req'[p].declared <= TOTAL_STORAGE_LIMIT
                /\ blobs' = blobs /\ files' = files
                /\ storage' = storage /\ temps' = temps
       /\ (physical_total <= TOTAL_STORAGE_LIMIT /\ physical_total' > TOTAL_STORAGE_LIMIT)
          => \E p \in Procs :
                /\ Leaves(p, "resolve") /\ pc'[p] = "record"
                /\ req[p].kind = "upload"
                /\ reg'[p].blob \notin BlobIds(blobs)]_vars

\* two uploads of distinct contents have both passed the pre-check and
\* committed their blobs, neither has run its post-check, and the physical
\* total is above the limit
C34_Witness ==
    \E p, q \in Procs :
       /\ pc[p] = "record" /\ pc[q] = "record"
       /\ req[p].content # req[q].content
       /\ nOps = 2
       /\ Cardinality(blobs) = 2
       /\ SumSize(blobs) > TOTAL_STORAGE_LIMIT

\* C35: every File row references an existing FileBlob row, and a step that
\* removes a FileBlob row removes every File row that references it.
C35_RecordsPointToBlobs ==
    /\ [](\A f \in files : BlobById(f.blob) # {})
    /\ [][\A b \in blobs :
             (\A c \in blobs' : c.id # b.id)
             => \A f \in files' : f.blob # b.id]_vars

\* a reclaim has removed a blob row together with a File row that still
\* referenced it: a File row was inserted twice (two uploads, or an upload
\* and a save() that wrote the row anew), one delete request was served, and
\* no File row and no FileBlob row is left
C35_Witness ==
    /\ Quiescent
    /\ nOps = 3
    /\ nextFile = 3
    /\ Cardinality(relFiles) = 1
    /\ files = {}
    /\ blobs = {}

\* C36: a File row disappears only by a delete request for its own id, by
\* remove_duplicates taking it as a newer duplicate, or by the capacity
\* rollback of the upload that created it; a delete request removes no File
\* row other than its own.
C36_RecordsRemovedOnlyByOwnRequest ==
    [][\A f \in files :
          FileById(f.id)' = {}
          => \E p \in Procs :
                \/ /\ req[p].kind = "delete"
                   /\ pc[p] \in {"delrec", "gc"}
                   /\ pc'[p] # pc[p]
                   /\ reg[p].file = f.id
                \/ /\ Leaves(p, "dedupe")
                   /\ f \in UNION {NewerFiles(b.id) : b \in reg[p].snap}
                \/ /\ Leaves(p, "postcheck")
                   /\ reg[p].file = f.id]_vars

\* C37: the id and the blob reference of a File row are fixed at creation: no
\* step changes the blob of a File row it keeps, and a File row always
\* references the FileBlob row of the content it was uploaded with.
C37_RecordBindingFixed ==
    /\ [][\A f \in files : \A g \in files' :
             g.id = f.id => g.blob = f.blob /\ g.content = f.content]_vars
    /\ [](\A f \in files : \A b \in BlobById(f.blob) :
             b.sha256 = Sha256(f.content))

\* a record update has been served while another FileBlob row existed: the
\* updated File row is still bound to the blob of its own content
C37_Witness ==
    \E f \in files :
       /\ f.name = "renamed"
       /\ BlobById(f.blob) # {}
       /\ \E b \in blobs : b.id # f.blob
       /\ \E p \in Procs : pc[p] = "idle" /\ resp[p] = "200"

====
